---- MODULE Spec2Model ----
(***************************************************************************)
(* PDFtoExc: the React client (frontend/src/App.js) and the HTTP core it   *)
(* talks to.  The client is translated from App.js; the server (server.py  *)
(* is not part of the sources at hand) is translated from the design       *)
(* document's sections 3, 4 and 6.                                         *)
(*                                                                         *)
(* A string that the program inspects character by character (a file name) *)
(* is a sequence of one-character strings; a nullable value of the program *)
(* is the empty sequence (null) or a one-element sequence (the value).     *)
(***************************************************************************)
EXTENDS Integers, Sequences, FiniteSets, Bags, TLC

\* ------------------------------------------------------------------ bounds
\* The server issues at most MaxDocs identifiers.
MaxDocs == 1
\* A document has at most PREVIEW_CAP + MaxExtraRows rows.
MaxExtraRows == 1
\* At most MaxDeletes DELETE requests are in flight at once.
MaxDeletes == 1

\* --------------------------------------------------------------- constants
\* App.js:33  const MAX_FILE_SIZE = 10 * 1024 * 1024;
MAX_FILE_SIZE == 10 * 1024 * 1024
\* App.js:361 previewData.slice(0, 100), App.js:345 Math.min(previewData.length, 100);
\* the server's preview cap (design document, section 6) is the same number.
PREVIEW_CAP == 100

Min(a, b) == IF a <= b THEN a ELSE b
MaxOf(S) == CHOOSE m \in S : \A x \in S : x <= m

NULL == <<>>
Some(x) == <<x>>
Val(o) == o[1]

\* ----------------------------------------------------------------- strings
DOT_PDF == <<".", "p", "d", "f">>
DOT_XLSX == <<".", "x", "l", "s", "x">>

\* String.prototype.toLowerCase on one character of the alphabet in use.
ToLowerChar(c) ==
    CASE c = "P" -> "p"
      [] c = "D" -> "d"
      [] c = "F" -> "f"
      [] OTHER -> c

toLowerCase(s) == [i \in 1..Len(s) |-> ToLowerChar(s[i])]

\* String.prototype.endsWith
endsWith(s, suffix) ==
    /\ Len(s) >= Len(suffix)
    /\ SubSeq(s, Len(s) - Len(suffix) + 1, Len(s)) = suffix

\* String.prototype.includes
includes(s, pat) ==
    \E i \in 1..(Len(s) - Len(pat) + 1) : SubSeq(s, i, i + Len(pat) - 1) = pat

\* String.prototype.indexOf, 1-based; 0 when pat does not occur.
indexOf(s, pat) ==
    IF includes(s, pat)
    THEN CHOOSE i \in 1..(Len(s) - Len(pat) + 1) :
            /\ SubSeq(s, i, i + Len(pat) - 1) = pat
            /\ \A j \in 1..(i - 1) : SubSeq(s, j, j + Len(pat) - 1) # pat
    ELSE 0

\* String.prototype.replace with a string pattern: the first occurrence only,
\* compared exactly (case-sensitive); the string unchanged when there is none.
replace(s, pat, rep) ==
    LET i == indexOf(s, pat) IN
    IF i = 0 THEN s
    ELSE SubSeq(s, 1, i - 1) \o rep \o SubSeq(s, i + Len(pat), Len(s))

\* ------------------------------------------------------------------ inputs
\* File names: a.pdf, a.PDF, and a.pdfa, which is no PDF name.
DOT_PDF_UPPER == <<".", "P", "D", "F">>
FileNames ==
    { <<"a">> \o DOT_PDF,
      <<"a">> \o DOT_PDF_UPPER,
      <<"a">> \o DOT_PDF \o <<"a">> }

FileSizes == { 0, MAX_FILE_SIZE, MAX_FILE_SIZE + 1 }

\* The File objects a file input or a drop can deliver.
Files == [name : FileNames, size : FileSizes]

\* An extracted cell: a short text, empty for some cells of a table.
Cell(i, j) == IF j > 1 /\ (i + j) % 4 = 0 THEN "" ELSE ToString(i) \o ":" \o ToString(j)

\* Row widths of the documents: "ragged" rows are 1 to 3 cells wide, "lastWide"
\* rows are 1 cell wide but the last, which is 3 cells wide.
RowWidth(shape, i, n) ==
    IF shape = "ragged" THEN 1 + (i % 3)
    ELSE IF i = n THEN 3 ELSE 1

RowsOf(shape, n) == [i \in 1..n |-> [j \in 1..RowWidth(shape, i, n) |-> Cell(i, j)]]

\* What the Extractor can return for an uploaded PDF: its rows and its page count.
Extraction(shape, n) == [rows |-> RowsOf(shape, n), pageCount |-> IF n > 2 THEN 2 ELSE 1]

Extractions ==
    { Extraction("ragged", 3),
      Extraction("lastWide", PREVIEW_CAP + MaxExtraRows) }

ExtractionErrors == { "UnparsablePDF", "EmptyDocument", "ExtractionTimeout" }

Ids == 1..MaxDocs

\* ------------------------------------------------------------------- state
VARIABLES
    \* App.js:36-41, the component's state
    file, isDragging, isUploading, uploadProgress, previewData, fileInfo,
    \* the toast the last step raised (NoToast when it raised none)
    toast,
    \* the POST /api/upload of the running uploadFile and the DELETE requests of
    \* the running deleteFile calls
    upload, deleteReqs,
    \* the server: the Record Store and the next identifier
    docs, nextId,
    \* history: per identifier, how many times the server performed remove
    \* (counted up to 2), and the identifiers whose deleteFile call has completed
    removes, settled

ui == <<file, isDragging, isUploading, uploadProgress, previewData, fileInfo>>
client == <<ui, toast>>
network == <<upload, deleteReqs>>
server == <<docs, nextId, removes>>
vars == <<client, network, server, settled>>

NoToast == [title |-> "", description |-> <<>>]
Toast(title, description) == [title |-> title, description |-> description]

NoUpload == [phase |-> "none", file |-> NULL, id |-> 0, data |-> NULL, detail |-> ""]
NoDoc == [status |-> "none", filename |-> <<>>, rows |-> <<>>, pageCount |-> 0]

Init ==
    /\ file = NULL
    /\ isDragging = FALSE
    /\ isUploading = FALSE
    /\ uploadProgress = 0
    /\ previewData = NULL
    /\ fileInfo = NULL
    /\ toast = NoToast
    /\ upload = NoUpload
    /\ deleteReqs = EmptyBag
    /\ docs = [id \in Ids |-> NoDoc]
    /\ nextId = 1
    /\ removes = [id \in Ids |-> 0]
    /\ settled = {}

\* ------------------------------------------------------------------ client
\* What the component renders (App.js:222, 287, 377).
UploadZoneShown == previewData = NULL
ActionButtonsShown == file # NULL /\ previewData = NULL /\ ~isUploading
DownloadActionsShown == previewData # NULL

\* App.js:43-48 without setUploadProgress(0).
resetStateKeepsProgress ==
    /\ file' = NULL
    /\ previewData' = NULL
    /\ fileInfo' = NULL
    /\ UNCHANGED uploadProgress

\* App.js:43-48
resetState ==
    /\ file' = NULL
    /\ previewData' = NULL
    /\ fileInfo' = NULL
    /\ uploadProgress' = 0

\* App.js:72  selectedFile.name.toLowerCase().endsWith('.pdf')
IsPdfNameBySubstring(name) == includes(toLowerCase(name), DOT_PDF)
IsPdfName(name) == endsWith(toLowerCase(name), DOT_PDF)

\* App.js:80  selectedFile.size > MAX_FILE_SIZE
IsTooLargeInclusive(size) == size >= MAX_FILE_SIZE
IsTooLarge(size) == size > MAX_FILE_SIZE

\* App.js:70-90 without the two early returns: the file is set whatever the checks said.
validateAndSetFileNoReturn(selectedFile) ==
    /\ toast' = IF ~IsPdfName(selectedFile.name)
                THEN Toast("Solo se permiten archivos PDF", <<>>)
                ELSE IF IsTooLarge(selectedFile.size)
                THEN Toast("Archivo demasiado grande", <<>>)
                ELSE NoToast
    /\ file' = Some(selectedFile)
    /\ previewData' = NULL
    /\ fileInfo' = NULL

\* App.js:70-90
validateAndSetFile(selectedFile) ==
    IF ~IsPdfName(selectedFile.name)
    THEN /\ toast' = Toast("Solo se permiten archivos PDF", <<>>)
         /\ UNCHANGED <<file, previewData, fileInfo>>
    ELSE IF IsTooLarge(selectedFile.size)
    THEN /\ toast' = Toast("Archivo demasiado grande", <<>>)
         /\ UNCHANGED <<file, previewData, fileInfo>>
    ELSE /\ file' = Some(selectedFile)
         /\ previewData' = NULL
         /\ fileInfo' = NULL
         /\ toast' = NoToast

\* handleDragOver and handleDragLeave (App.js:50-58) only switch isDragging, which
\* only selects a style of the upload zone (App.js:225, 247); they are left out,
\* so isDragging stays false.

\* App.js:60-68; a drop that carries no file only clears isDragging.
handleDrop(files) ==
    /\ UploadZoneShown
    /\ isDragging' = FALSE
    /\ IF Len(files) > 0
       THEN validateAndSetFile(files[1])
       ELSE toast' = NoToast /\ UNCHANGED <<file, previewData, fileInfo>>
    /\ UNCHANGED <<isUploading, uploadProgress>>
    /\ UNCHANGED <<network, server, settled>>

\* App.js:92-97; the input's change event with no file chosen changes nothing.
handleFileSelect(files) ==
    /\ UploadZoneShown
    /\ IF Len(files) > 0
       THEN validateAndSetFile(files[1])
       ELSE toast' = NoToast /\ UNCHANGED <<file, previewData, fileInfo>>
    /\ UNCHANGED <<isDragging, isUploading, uploadProgress>>
    /\ UNCHANGED <<network, server, settled>>

\* App.js:297-305, the cancel button: onClick={resetState}
cancel ==
    /\ ActionButtonsShown
    /\ resetState
    /\ toast' = NoToast
    /\ UNCHANGED <<isDragging, isUploading>>
    /\ UNCHANGED <<network, server, settled>>

\* The file lists an event can carry: none, or one file (only files[0] is read).
FileLists == { <<>> } \cup { <<f>> : f \in Files }

\* App.js:113-116  Math.round((progressEvent.loaded * 100) / progressEvent.total)
ProgressOf(ev) == (2 * ev.loaded * 100 + ev.total) \div (2 * ev.total)

ProgressEvents == { [loaded |-> 1, total |-> 3], [loaded |-> 3, total |-> 3] }

\* App.js:99-106: uploadFile up to the await; the request carries the file of the
\* render the handler was created in.
uploadFileStart ==
    /\ ActionButtonsShown
    /\ file # NULL
    /\ nextId <= MaxDocs
    /\ isUploading' = TRUE
    /\ uploadProgress' = 0
    /\ upload' = [NoUpload EXCEPT !.phase = "sent", !.file = file]
    /\ toast' = NoToast
    /\ UNCHANGED <<file, isDragging, previewData, fileInfo>>
    /\ UNCHANGED <<deleteReqs, server, settled>>

\* App.js:113-116
onUploadProgress(ev) ==
    /\ upload.phase = "sent"
    /\ uploadProgress' = ProgressOf(ev)
    /\ toast' = NoToast
    /\ UNCHANGED <<file, isDragging, isUploading, previewData, fileInfo>>
    /\ UNCHANGED <<network, server, settled>>

\* App.js:119-131 and 138-140: the request resolved.
uploadFileResolved ==
    /\ upload.phase = "ok"
    /\ LET data == Val(upload.data) IN
       /\ fileInfo' = Some([id |-> data.id,
                            originalFilename |-> data.original_filename,
                            status |-> data.status,
                            totalRows |-> data.total_rows,
                            totalPages |-> data.total_pages])
       /\ previewData' = Some(data.preview_data)
    /\ toast' = Toast("PDF procesado correctamente", <<>>)
    /\ isUploading' = FALSE
    /\ upload' = NoUpload
    /\ UNCHANGED <<file, isDragging, uploadProgress>>
    /\ UNCHANGED <<deleteReqs, server, settled>>

\* App.js:133-140 without resetState() in the catch.
uploadFileRejectedNoReset ==
    /\ upload.phase = "err"
    /\ toast' = Toast("Error", << IF upload.detail # "" THEN upload.detail
                                  ELSE "Error al procesar el archivo" >>)
    /\ isUploading' = FALSE
    /\ upload' = NoUpload
    /\ UNCHANGED <<file, previewData, fileInfo, uploadProgress, isDragging>>
    /\ UNCHANGED <<deleteReqs, server, settled>>

\* App.js:133-137 without the finally block (App.js:138-140).
uploadFileRejectedNoFinally ==
    /\ upload.phase = "err"
    /\ toast' = Toast("Error", << IF upload.detail # "" THEN upload.detail
                                  ELSE "Error al procesar el archivo" >>)
    /\ resetState
    /\ upload' = NoUpload
    /\ UNCHANGED <<isDragging, isUploading>>
    /\ UNCHANGED <<deleteReqs, server, settled>>

\* App.js:133-140: the request rejected.
uploadFileRejected ==
    /\ upload.phase = "err"
    /\ toast' = Toast("Error", << IF upload.detail # "" THEN upload.detail
                                  ELSE "Error al procesar el archivo" >>)
    /\ resetState
    /\ isUploading' = FALSE
    /\ upload' = NoUpload
    /\ UNCHANGED isDragging
    /\ UNCHANGED <<deleteReqs, server, settled>>

\* App.js:144  fileInfo?.id
HasId == fileInfo # NULL /\ Val(fileInfo).id # 0

\* App.js:153  fileInfo.originalFilename.replace('.pdf', '.xlsx')
DownloadToastName(originalFilename) == replace(originalFilename, DOT_PDF, DOT_XLSX)

\* App.js:143-161; window.open returns null when the popup is blocked.
downloadFile(popupOpened) ==
    /\ DownloadActionsShown
    /\ IF ~HasId
       THEN toast' = NoToast
       ELSE IF popupOpened
       THEN toast' = Toast("Descarga iniciada",
                           DownloadToastName(Val(fileInfo).originalFilename))
       ELSE toast' = Toast("Popup bloqueado", <<>>)
    /\ UNCHANGED <<file, isDragging, isUploading, uploadProgress, previewData, fileInfo>>
    /\ UNCHANGED <<upload, deleteReqs, server, settled>>

DeleteReq(id, phase) == [id |-> id, phase |-> phase]
One(r) == SetToBag({r})

\* App.js:163-166: deleteFile up to the await; without an id it goes straight to
\* resetState (App.js:171).
deleteFileStart ==
    /\ DownloadActionsShown
    /\ IF HasId
       THEN /\ BagCardinality(deleteReqs) < MaxDeletes
            /\ deleteReqs' = deleteReqs (+) One(DeleteReq(Val(fileInfo).id, "sent"))
            /\ UNCHANGED <<file, previewData, fileInfo, uploadProgress>>
       ELSE /\ resetState
            /\ UNCHANGED deleteReqs
    /\ toast' = NoToast
    /\ UNCHANGED <<isDragging, isUploading>>
    /\ UNCHANGED <<upload, server, settled>>

\* App.js:166-171 with resetState inside the try: a failed DELETE skips it.
deleteFileSettledResetOnSuccess(req) ==
    /\ BagIn(req, deleteReqs)
    /\ req.phase \in {"ok", "err"}
    /\ deleteReqs' = deleteReqs (-) One(req)
    /\ settled' = settled \cup { req.id }
    /\ IF req.phase = "ok" THEN resetState
       ELSE UNCHANGED <<file, previewData, fileInfo, uploadProgress>>
    /\ toast' = NoToast
    /\ UNCHANGED <<isDragging, isUploading>>
    /\ UNCHANGED <<upload, server>>

\* App.js:166-171: the DELETE resolved, or rejected and was logged; then resetState.
deleteFileSettled(req) ==
    /\ BagIn(req, deleteReqs)
    /\ req.phase \in {"ok", "err"}
    /\ deleteReqs' = deleteReqs (-) One(req)
    /\ settled' = settled \cup { req.id }
    /\ resetState
    /\ toast' = NoToast
    /\ UNCHANGED <<isDragging, isUploading>>
    /\ UNCHANGED <<upload, server>>

DeleteReqs == [id : Ids, phase : {"sent", "ok", "err"}]

\* ------------------------------------------------------------------ render
\* App.js:338  previewData && previewData.length > 0
PreviewSectionShown == previewData # NULL /\ Len(Val(previewData)) > 0

\* App.js:361  previewData.slice(0, 100), cut one row short.
ShownRowsOneShort(p) == SubSeq(p, 1, Min(Len(p), PREVIEW_CAP - 1))
\* App.js:361  previewData.slice(0, 100)
ShownRows(p) == SubSeq(p, 1, Min(Len(p), PREVIEW_CAP))

\* App.js:345  Math.min(previewData.length, 100)
ShownCount(p) == Min(Len(p), PREVIEW_CAP)

\* App.js:345  fileInfo?.totalRows || previewData.length
ReportedTotal(info, p) ==
    IF info # NULL /\ Val(info).totalRows # 0 THEN Val(info).totalRows ELSE Len(p)

\* App.js:175-179
getHeaders(pd) ==
    IF pd = NULL \/ Len(Val(pd)) = 0 THEN <<>>
    ELSE LET maxCols == MaxOf({ Len(Val(pd)[i]) : i \in 1..Len(Val(pd)) }) IN
         [i \in 1..maxCols |-> "Columna " \o ToString(i)]

\* App.js:365  row[colIdx] || ''
CellText(row, c) == IF c <= Len(row) /\ row[c] # "" THEN row[c] ELSE ""

\* App.js:360-370: one table row per shown row, one cell per header.
TableBody(pd) ==
    LET shown == ShownRows(Val(pd)) IN
    [r \in 1..Len(shown) |-> [c \in 1..Len(getHeaders(pd)) |-> CellText(shown[r], c)]]

\* ------------------------------------------------------------------ server
\* Design document 4.4, ingest: the extension, then the size ceiling, then the
\* empty payload.
ServerValidate(f) ==
    IF ~endsWith(toLowerCase(f.name), DOT_PDF) THEN "InvalidFileType"
    ELSE IF f.size > MAX_FILE_SIZE THEN "TooLarge"
    ELSE IF f.size = 0 THEN "EmptyUpload"
    ELSE "ok"

\* Design document 4.4, preview: the first N rows, N = 100.
PreviewRows(rows) == SubSeq(rows, 1, Min(Len(rows), PREVIEW_CAP))

\* Design document 6, the POST /api/upload response.
Summary(id, doc) ==
    [id |-> id,
     original_filename |-> doc.filename,
     status |-> doc.status,
     total_rows |-> Len(doc.rows),
     total_pages |-> doc.pageCount,
     preview_data |-> PreviewRows(doc.rows)]

\* Design document 6: Content-Disposition filename=<original base>.xlsx
SpreadsheetName(original) == SubSeq(original, 1, Len(original) - Len(DOT_PDF)) \o DOT_XLSX

\* Design document 4.2, get: a live record is one whose ingestion succeeded and
\* that was not deleted.
Live(d, id) == id \in DOMAIN d /\ d[id].status = "ready"

\* Design document 4.4, preview(id)
Preview(d, id) ==
    IF Live(d, id)
    THEN [result |-> "ok", rows |-> PreviewRows(d[id].rows), total_rows |-> Len(d[id].rows)]
    ELSE [result |-> "NotFound", rows |-> <<>>, total_rows |-> 0]

\* Design document 4.4, download(id)
Download(d, id) ==
    IF Live(d, id)
    THEN [id |-> id, result |-> "artifact", filename |-> SpreadsheetName(d[id].filename)]
    ELSE [id |-> id, result |-> "NotFound", filename |-> <<>>]

\* Design document 4.2 delete and 4.4 remove: the record and its artifact go;
\* an identifier with no record is left as it is, and the call succeeds.
Remove(d, id) ==
    [d EXCEPT ![id] = IF @.status \in {"ready", "failed"}
                      THEN [NoDoc EXCEPT !.status = "deleted"]
                      ELSE @]

CountRemove(id) == removes' = [removes EXCEPT ![id] = Min(@ + 1, 2)]

\* POST /api/upload arrives: validation, then a fresh identifier for the document.
ServerAccept ==
    /\ upload.phase = "sent"
    /\ LET f == Val(upload.file)
           v == ServerValidate(f) IN
       IF v # "ok"
       THEN /\ upload' = [upload EXCEPT !.phase = "err", !.detail = v]
            /\ UNCHANGED <<docs, nextId>>
       ELSE /\ nextId <= MaxDocs
            /\ docs' = [docs EXCEPT ![nextId] =
                            [NoDoc EXCEPT !.status = "pending", !.filename = f.name]]
            /\ nextId' = nextId + 1
            /\ upload' = [upload EXCEPT !.phase = "extracting", !.id = nextId]
    /\ toast' = NoToast
    /\ UNCHANGED <<ui, deleteReqs, removes, settled>>

\* The Extractor returned rows: the record becomes ready and the summary is sent.
ServerExtracted(e) ==
    /\ upload.phase = "extracting"
    /\ LET doc == [docs[upload.id] EXCEPT !.status = "ready", !.rows = e.rows,
                                          !.pageCount = e.pageCount] IN
       /\ docs' = [docs EXCEPT ![upload.id] = doc]
       /\ upload' = [upload EXCEPT !.phase = "ok", !.data = Some(Summary(upload.id, doc))]
    /\ toast' = NoToast
    /\ UNCHANGED <<ui, deleteReqs, nextId, removes, settled>>

\* The Extractor failed and the pending document is dropped as if deleted.
ServerExtractFailedDeletes(err) ==
    /\ upload.phase = "extracting"
    /\ docs' = [docs EXCEPT ![upload.id] = [NoDoc EXCEPT !.status = "deleted"]]
    /\ upload' = [upload EXCEPT !.phase = "err", !.detail = err]
    /\ toast' = NoToast
    /\ UNCHANGED <<ui, deleteReqs, nextId, removes, settled>>

\* The Extractor failed: the document is failed, nothing of it is kept, and the
\* error is sent.
ServerExtractFailed(err) ==
    /\ upload.phase = "extracting"
    /\ docs' = [docs EXCEPT ![upload.id] = [NoDoc EXCEPT !.status = "failed"]]
    /\ upload' = [upload EXCEPT !.phase = "err", !.detail = err]
    /\ toast' = NoToast
    /\ UNCHANGED <<ui, deleteReqs, nextId, removes, settled>>

\* DELETE /api/file/{id} arrives: 200 always.
ServerDelete(req) ==
    /\ BagIn(req, deleteReqs)
    /\ req.phase = "sent"
    /\ docs' = Remove(docs, req.id)
    /\ CountRemove(req.id)
    /\ deleteReqs' = (deleteReqs (-) One(req)) (+) One(DeleteReq(req.id, "ok"))
    /\ toast' = NoToast
    /\ UNCHANGED <<ui, upload, nextId, settled>>

\* Design document 3, lifecycle: a retention sweep outside the core removes a
\* document through the same remove.
RetentionSweep(id) ==
    /\ docs[id].status \in {"ready", "failed"}
    /\ docs' = Remove(docs, id)
    /\ CountRemove(id)
    /\ toast' = NoToast
    /\ UNCHANGED <<ui, network, nextId, settled>>

\* ----------------------------------------------------------------- network
\* The POST never reaches the server, or its response is lost: axios rejects
\* with no response.
UploadNetworkError ==
    /\ upload.phase \in {"sent", "ok"}
    /\ upload' = [upload EXCEPT !.phase = "err", !.data = NULL, !.detail = ""]
    /\ toast' = NoToast
    /\ UNCHANGED <<ui, deleteReqs, server, settled>>

\* The DELETE never reaches the server, or its response is lost.
DeleteNetworkError(req) ==
    /\ BagIn(req, deleteReqs)
    /\ req.phase \in {"sent", "ok"}
    /\ deleteReqs' = (deleteReqs (-) One(req)) (+) One(DeleteReq(req.id, "err"))
    /\ toast' = NoToast
    /\ UNCHANGED <<ui, upload, server, settled>>

Next ==
    \/ \E files \in FileLists : handleDrop(files)
    \/ \E files \in FileLists : handleFileSelect(files)
    \/ cancel
    \/ uploadFileStart
    \/ \E ev \in ProgressEvents : onUploadProgress(ev)
    \/ uploadFileResolved
    \/ uploadFileRejected
    \/ \E popupOpened \in BOOLEAN : downloadFile(popupOpened)
    \/ deleteFileStart
    \/ \E req \in DeleteReqs : deleteFileSettled(req)
    \/ ServerAccept
    \/ \E e \in Extractions : ServerExtracted(e)
    \/ \E err \in ExtractionErrors : ServerExtractFailed(err)
    \/ \E req \in DeleteReqs : ServerDelete(req)
    \/ \E id \in Ids : RetentionSweep(id)
    \/ UploadNetworkError
    \/ \E req \in DeleteReqs : DeleteNetworkError(req)

Spec == Init /\ [][Next]_vars

\* The server answers a request it has received: validation, then extraction,
\* which ends with rows or with an error.
ServerAnswers ==
    \/ ServerAccept
    \/ \E e \in Extractions : ServerExtracted(e)
    \/ \E err \in ExtractionErrors : ServerExtractFailed(err)

\* The HTTP request eventually resolves or rejects, and the continuation of
\* uploadFile after the await runs once the promise has settled.
LiveSpec ==
    /\ Spec
    /\ WF_vars(ServerAnswers)
    /\ WF_vars(uploadFileResolved)
    /\ WF_vars(uploadFileRejected)

\* ------------------------------------------------------------------ claims
\* A name with a case-insensitive ".pdf" suffix, character by character.
HasPdfSuffix(name) ==
    /\ Len(name) >= Len(DOT_PDF)
    /\ \A k \in 1..Len(DOT_PDF) :
          LET c == name[Len(name) - Len(DOT_PDF) + k] IN
          \/ c = DOT_PDF[k]
          \/ c = DOT_PDF_UPPER[k]

\* The step offers file f to the component, through the input or by a drop.
Offers(f) == handleDrop(<<f>>) \/ handleFileSelect(<<f>>)

FullyReset == file = NULL /\ previewData = NULL /\ fileInfo = NULL /\ uploadProgress = 0

\* C1: a PDF-named file of exactly 10 MiB offered to the component becomes the
\* selected file, one of 10 MiB + 1 byte is rejected with the "too large" toast
\* and leaves the selection as it was, and neither the selected file nor the
\* file of an upload request is ever larger than 10 MiB.
C1_SizeBoundary ==
    [][ /\ \A f \in Files :
            (/\ f.size \in {10 * 1024 * 1024, 10 * 1024 * 1024 + 1}
             /\ HasPdfSuffix(f.name)
             /\ Offers(f)) =>
                /\ (f.size = 10 * 1024 * 1024) => file' = Some(f)
                /\ (f.size = 10 * 1024 * 1024 + 1) =>
                      /\ file' = file
                      /\ toast'.title = "Archivo demasiado grande"
        /\ file' # NULL => Val(file').size <= 10 * 1024 * 1024
        /\ upload'.file # NULL => Val(upload'.file).size <= 10 * 1024 * 1024
      ]_vars

\* C1 witness: a file of exactly 10 MiB is selected, and the step just taken
\* rejected another one as too large.
C1_Witness ==
    /\ file # NULL
    /\ Val(file).size = 10 * 1024 * 1024
    /\ toast.title = "Archivo demasiado grande"

\* C2: the selected file, and the file of the upload request in flight, always
\* has a name with a case-insensitive ".pdf" suffix.
C2_OnlyPdfNames ==
    /\ file # NULL => HasPdfSuffix(Val(file).name)
    /\ upload.file # NULL => HasPdfSuffix(Val(upload.file).name)

\* C2 witness: an upload request in flight carries a file named a.PDF.
C2_Witness ==
    /\ upload.phase = "sent"
    /\ Val(upload.file).name = <<"a">> \o DOT_PDF_UPPER

\* C10: a step that offers a file with a wrong extension or over the size limit
\* leaves file, previewData and fileInfo as they were and sends no upload request.
C10_RejectionChangesNothing ==
    [][ \A f \in Files :
            ((~HasPdfSuffix(f.name) \/ f.size > 10 * 1024 * 1024) /\ Offers(f)) =>
                /\ file' = file
                /\ previewData' = previewData
                /\ fileInfo' = fileInfo
                /\ upload' = upload
                /\ toast'.title \in {"Solo se permiten archivos PDF", "Archivo demasiado grande"}
      ]_vars

\* C10 witness: a file with a wrong extension was just rejected while another
\* file was selected and its upload was in flight.
C10_Witness ==
    /\ toast.title = "Solo se permiten archivos PDF"
    /\ file # NULL
    /\ upload.phase = "sent"

\* C3: while a preview is shown, the rows shown are the first min(len, 100) rows
\* of previewData in their order, the count reported as shown is their number
\* and exceeds neither 100 nor the reported total; while the document is live on
\* the server, the rows shown are the first min(total_rows, 100) rows of its
\* full extraction in their order, the reported total is its row count, and
\* preview(id) returns the same prefix.
C3_PreviewIsPrefix ==
    previewData # NULL =>
        LET p == Val(previewData)
            shown == ShownRows(p)
            total == ReportedTotal(fileInfo, p)
        IN  /\ fileInfo # NULL
            /\ Len(shown) = (IF Len(p) <= 100 THEN Len(p) ELSE 100)
            /\ \A i \in 1..Len(shown) : shown[i] = p[i]
            /\ ShownCount(p) = Len(shown)
            /\ ShownCount(p) <= 100
            /\ ShownCount(p) <= total
            /\ Live(docs, Val(fileInfo).id) =>
                  LET full == docs[Val(fileInfo).id].rows IN
                  /\ total = Len(full)
                  /\ Len(shown) = (IF Len(full) <= 100 THEN Len(full) ELSE 100)
                  /\ \A i \in 1..Len(shown) : shown[i] = full[i]
                  /\ Preview(docs, Val(fileInfo).id).rows = shown
                  /\ Preview(docs, Val(fileInfo).id).total_rows = total

\* C3 witness: the preview of a live document of more than 100 rows is shown,
\* with exactly 100 rows.
C3_Witness ==
    /\ previewData # NULL
    /\ fileInfo # NULL
    /\ Live(docs, Val(fileInfo).id)
    /\ Len(docs[Val(fileInfo).id].rows) > 100
    /\ Len(ShownRows(Val(previewData))) = 100

\* The width of the widest row of a document.
WidestRow(rows) == MaxOf({ Len(rows[i]) : i \in 1..Len(rows) })

\* C9: while the preview of a live document is shown, the number of columns is
\* the width of the widest row of the whole document, and every row of the
\* table has that many cells, a cell the row lacks being the empty string.
C9_ColumnCountIsDocumentMax ==
    (PreviewSectionShown /\ fileInfo # NULL /\ Live(docs, Val(fileInfo).id)) =>
        LET rows == docs[Val(fileInfo).id].rows
            body == TableBody(previewData)
        IN  /\ Len(getHeaders(previewData)) = WidestRow(rows)
            /\ \A r \in 1..Len(body) :
                  /\ Len(body[r]) = WidestRow(rows)
                  /\ \A c \in 1..Len(body[r]) :
                        body[r][c] = (IF c <= Len(rows[r]) THEN rows[r][c] ELSE "")

\* C4: an identifier on which the server has performed remove is not found by
\* download, by preview or by get, and the client holds no identifier whose
\* deleteFile call has completed, so downloadFile can open no download of it.
C4_NoDownloadAfterRemove ==
    \A id \in Ids :
        /\ removes[id] > 0 =>
              /\ Download(docs, id).result = "NotFound"
              /\ Preview(docs, id).result = "NotFound"
              /\ ~Live(docs, id)
        /\ id \in settled => ~(fileInfo # NULL /\ Val(fileInfo).id = id)

\* C4 witness: downloadFile has just opened the download of an identifier the
\* server had already removed, and the download finds nothing.
C4_Witness ==
    /\ toast.title = "Descarga iniciada"
    /\ fileInfo # NULL
    /\ removes[Val(fileInfo).id] > 0
    /\ Download(docs, Val(fileInfo).id).result = "NotFound"

\* C5: removing twice leaves the store as removing once does, removing an
\* identifier that has no record changes nothing, the server answers every
\* DELETE with success, and every completion of deleteFile (the DELETE resolved,
\* rejected, or not sent for want of an id) leaves the client fully reset.
C5_RemoveIdempotent ==
    [][ /\ \A id \in Ids :
            /\ Remove(Remove(docs, id), id) = Remove(docs, id)
            /\ docs[id].status \in {"none", "deleted"} => Remove(docs, id) = docs
        /\ \A req \in DOMAIN deleteReqs :
            /\ ServerDelete(req) => BagIn(DeleteReq(req.id, "ok"), deleteReqs')
            /\ deleteFileSettled(req) => FullyReset'
        /\ (deleteFileStart /\ ~HasId) => FullyReset'
      ]_vars

\* C5 witness: the server has performed remove twice on one identifier, the
\* deleteFile call for it has completed and the client is fully reset.
C5_Witness ==
    /\ \E id \in Ids : removes[id] = 2 /\ id \in settled /\ docs[id].status = "deleted"
    /\ FullyReset
    /\ deleteReqs = EmptyBag

\* C6: the step in which uploadFile handles a failed request leaves the client
\* fully reset and not uploading; previewData becomes non-null only in the step
\* in which uploadFile handles a successful response; and a document whose
\* ingestion is unfinished or failed, or whose request was refused, is visible
\* to neither preview nor download.
C6_FailedUploadLeavesNothing ==
    [][ /\ uploadFileRejected => (FullyReset' /\ ~isUploading')
        /\ (previewData = NULL /\ previewData' # NULL) => uploadFileResolved
        /\ \A id \in Ids :
              docs'[id].status \in {"pending", "failed"} =>
                  /\ Preview(docs', id).result = "NotFound"
                  /\ Download(docs', id).result = "NotFound"
        /\ (upload'.phase = "err" /\ upload'.detail # "") =>
              (upload'.id = 0 \/ ~Live(docs', upload'.id))
      ]_vars

\* C6 witness: uploadFile has just reported a parsing error; the client is fully
\* reset and the failed document is not live.
C6_Witness ==
    /\ toast = Toast("Error", <<"UnparsablePDF">>)
    /\ FullyReset
    /\ ~isUploading
    /\ \E id \in Ids : docs[id].status = "failed"

\* C7: a document's status changes only from pending to ready, from pending to
\* failed, from ready to deleted or from failed to deleted (a new document
\* starts pending), and a deleted document stays deleted; the status the client
\* shows is the ready status the server sent.
C7_StatusTransitions ==
    [][ /\ \A id \in Ids :
            \/ docs'[id].status = docs[id].status
            \/ <<docs[id].status, docs'[id].status>> \in
                  { <<"none", "pending">>, <<"pending", "ready">>, <<"pending", "failed">>,
                    <<"ready", "deleted">>, <<"failed", "deleted">> }
        /\ fileInfo' # NULL => Val(fileInfo').status = "ready"
      ]_vars

\* C7 witness: a failed document was deleted, and remove was performed again on
\* the deleted document, which stays deleted.
C7_Witness ==
    \E id \in Ids : docs[id].status = "deleted" /\ removes[id] = 2 /\ fileInfo # NULL

\* The original file name with its four-character extension replaced by .xlsx.
ExtensionReplaced(name) == SubSeq(name, 1, Len(name) - 4) \o <<".", "x", "l", "s", "x">>

\* C8: the spreadsheet file name downloadFile derives from the original file
\* name is the original name with its .pdf extension replaced by .xlsx.
C8_DownloadNameReplacesExtension ==
    toast.title = "Descarga iniciada" =>
        toast.description = ExtensionReplaced(Val(fileInfo).originalFilename)

\* C11: if the HTTP request eventually resolves or rejects, every upload that
\* is started, which sets isUploading to true, is followed by a state in which
\* isUploading is false and the call to uploadFile is over.
C11_UploadEventuallyEnds ==
    (isUploading /\ upload.phase # "none") ~> (~isUploading /\ upload.phase = "none")

\* C11 witness: an upload whose request was lost on the network has ended on
\* the failure path with isUploading false.
C11_Witness ==
    /\ toast = Toast("Error", <<"Error al procesar el archivo">>)
    /\ ~isUploading
    /\ upload = NoUpload

\* C12: in the step in which uploadFile applies a successful response, setting
\* fileInfo and previewData, the selected file is the file that was sent in
\* that request.
C12_ResponseBelongsToSelectedFile ==
    [][uploadFileResolved => (file' # NULL /\ file' = upload.file)]_vars

====
